---- MODULE Spec2Model ----
(***************************************************************************)
(* A model of colorcode.py: the Color arithmetic, the ColorGrid, the three *)
(* codec layers (BlockCode, StegCode, QRCode), the composer addCode, the   *)
(* Canvas renderer, the decoder and the fromJSON assembly.                 *)
(*                                                                         *)
(* Strings are sequences of character codes; a hex string is a sequence of *)
(* hex digits (0..15).  Python's None is the value None below.             *)
(***************************************************************************)
EXTENDS Integers, Sequences, FiniteSets, TLC

VARIABLES pc, gc, base, json, call, raised, allocated, pre, adds, svg, decoded, dimIn, dimOut

vars == <<pc, gc, base, json, call, raised, allocated, pre, adds, svg, decoded, dimIn, dimOut>>

\* ------------------------------------------------------------------ bounds
\* longest block / steg message composed
MaxBlockLen == 7
MaxStegLen == 2
\* longest message of a layer built and decoded on its own
MaxLayerLen == 4
\* largest explicit nRows / nCols hint tried
MaxDim == 2
\* most addCode calls made on one target
MaxAdds == 2
\* largest block count handed to computeDimensions on its own
MaxBlocks == 40

\* ------------------------------------------------------------------ values
\* Python's None (a cell without colour, an absent argument)
None == -1

\* BlockCode.RGBLEN, StegCode.ASCIILEN, StegCode.NULL, BlockCode.NULL = chr(0)
RGBLEN == 3
ASCIILEN == 7
StegNULL == 0
BlockNULL == 0

\* the constant of Color.__neg__, 0xFEFEFE
NegMask == 16711422

\* ------------------------------------------------------------------ helpers
Max(a, b) == IF a < b THEN b ELSE a

\* math.ceil(a / b) for a >= 0, b > 0
CeilDiv(a, b) == (a + b - 1) \div b

\* int(math.sqrt(n)): the largest s with s*s <= n
ISqrt(n) == CHOOSE s \in 0..n : s * s <= n /\ (s + 1) * (s + 1) > n

\* the bitwise XOR of two naturals (Python's ^)
RECURSIVE BitXor(_, _)
BitXor(a, b) ==
    IF a = 0 /\ b = 0 THEN 0
    ELSE (((a % 2) + (b % 2)) % 2) + 2 * BitXor(a \div 2, b \div 2)

\* itertools.batched(seq, k): consecutive groups of k, the last one shorter
RECURSIVE Batched(_, _)
Batched(seq, k) ==
    IF Len(seq) = 0 THEN <<>>
    ELSE IF Len(seq) <= k THEN <<seq>>
    ELSE <<SubSeq(seq, 1, k)>> \o Batched(SubSeq(seq, k + 1, Len(seq)), k)

\* itertools.chain(*rows): the concatenation of a sequence of sequences
RECURSIVE Chain(_)
Chain(rows) == IF Len(rows) = 0 THEN <<>> ELSE Head(rows) \o Chain(Tail(rows))

\* all sequences over S of length at most n
RECURSIVE SeqsUpTo(_, _)
SeqsUpTo(S, n) ==
    IF n = 0 THEN {<<>>}
    ELSE LET shorter == SeqsUpTo(S, n - 1)
         IN  shorter \cup {Append(s, c) : s \in {t \in shorter : Len(t) = n - 1}, c \in S}

\* ------------------------------------------------------------------ Color
\* a complement that also flips the lowest bit of every channel
ColorNegAllBits(value) == BitXor(value, 16777215)

\* Color.__neg__: XOR with 0xFEFEFE
ColorNeg(value) == BitXor(value, NegMask)

\* Color.__add__ (and __radd__): self + other, other may be None
ColorAdd(self, other) == IF other = None THEN self ELSE self + other

\* an assignment in place of the addition: data[i][j] = color
IAddOverwrite(cell, color) == color

\* data[i][j] += color: Color.__add__ when the cell holds a colour, else
\* the reflected Color.__radd__(None) of the right operand
IAdd(cell, color) == IF cell = None THEN ColorAdd(color, None) ELSE ColorAdd(cell, color)

\* Color.fromRGB: sum(channel * 0x10**power), powers 4, 2, 0
FromRGB(RGB) == RGB[1] * 16^4 + RGB[2] * 16^2 + RGB[3] * 16^0

\* the hex digits of a natural, most significant first, at least one digit
RECURSIVE HexDigits(_)
HexDigits(v) == IF v < 16 THEN <<v>> ELSE Append(HexDigits(v \div 16), v % 16)

\* str.rjust(width, "0") on a digit string
RECURSIVE RJust(_, _)
RJust(digits, width) == IF Len(digits) >= width THEN digits ELSE RJust(<<0>> \o digits, width)

\* int(digits, 16)
RECURSIVE ParseHex(_)
ParseHex(digits) ==
    IF Len(digits) = 0 THEN 0
    ELSE 16 * ParseHex(SubSeq(digits, 1, Len(digits) - 1)) + digits[Len(digits)]

\* Color.svghex without the leading '#': f"{value:06X}"
SvgHex(value) == RJust(HexDigits(value), 6)

\* ------------------------------------------------------------------ ColorGrid
\* ColorGrid.__init__: nRows rows of nCols unset cells
ColorGrid(nRows, nCols) == [i \in 1..nRows |-> [j \in 1..nCols |-> None]]

\* ColorGrid.area
Area(layer) == layer.nRows * layer.nCols

\* ColorGrid.coordFromIdx (0-based row and column)
CoordFromIdx(idx, nCols) == [i |-> idx \div nCols, j |-> idx % nCols]

\* ColorGrid.fill
Fill(data, coord, color) == [data EXCEPT ![coord.i + 1][coord.j + 1] = color]

\* ColorGrid.__iter__: the cells in row-major order
GridIter(data) == Chain(data)

\* for idx, color in enumerate(colorArray): grid.fill(coordFromIdx(idx), color)
RECURSIVE FillAll(_, _, _, _)
FillAll(data, nCols, colorArray, idx) ==
    IF idx >= Len(colorArray) THEN data
    ELSE FillAll(Fill(data, CoordFromIdx(idx, nCols), colorArray[idx + 1]),
                 nCols, colorArray, idx + 1)

\* ------------------------------------------------------------------ computeDimensions
\* BlockCode.computeDimensions with nRows = nCols = None: the square root
\* rounded down, then a row added, then a column added, each when needed
SquareDimensionsNoColumn(nBlocks) ==
    LET sqrt == ISqrt(nBlocks)
        nRows1 == IF sqrt * sqrt < nBlocks THEN sqrt + 1 ELSE sqrt
    IN  [raised |-> "none", nRows |-> nRows1, nCols |-> sqrt,
         rowAdded |-> nRows1 # sqrt, colAdded |-> FALSE]

SquareDimensionsColumnFirst(nBlocks) ==
    LET sqrt == ISqrt(nBlocks)
        nCols1 == IF sqrt * sqrt < nBlocks THEN sqrt + 1 ELSE sqrt
        nRows1 == IF sqrt * nCols1 < nBlocks THEN sqrt + 1 ELSE sqrt
    IN  [raised |-> "none", nRows |-> nRows1, nCols |-> nCols1,
         rowAdded |-> nRows1 # sqrt, colAdded |-> nCols1 # sqrt]

SquareDimensions(nBlocks) ==
    LET sqrt == ISqrt(nBlocks)
        nRows1 == IF sqrt * sqrt < nBlocks THEN sqrt + 1 ELSE sqrt
        nCols1 == IF nRows1 * sqrt < nBlocks THEN sqrt + 1 ELSE sqrt
    IN  [raised |-> "none", nRows |-> nRows1, nCols |-> nCols1,
         rowAdded |-> nRows1 # sqrt, colAdded |-> nCols1 # sqrt]

\* BlockCode.computeDimensions: the dimensions, or the error it raises.
\* nRows and nCols are None or naturals.
ComputeDimensions(nBlocks, nRows, nCols) ==
    IF nRows = None /\ nCols = None THEN
        [raised |-> "none", nRows |-> SquareDimensions(nBlocks).nRows,
         nCols |-> SquareDimensions(nBlocks).nCols]
    ELSE IF nRows = None /\ nCols # None THEN
        IF nCols = 0 THEN [raised |-> "ZeroDivisionError", nRows |-> nRows, nCols |-> nCols]
        ELSE [raised |-> "none", nRows |-> CeilDiv(nBlocks, nCols), nCols |-> nCols]
    ELSE IF nRows # None /\ nCols = None THEN
        IF nRows = 0 THEN [raised |-> "ZeroDivisionError", nRows |-> nRows, nCols |-> nCols]
        ELSE [raised |-> "none", nRows |-> nRows, nCols |-> CeilDiv(nBlocks, nRows)]
    ELSE
        IF nRows * nCols < nBlocks
        THEN [raised |-> "ValueError", nRows |-> nRows, nCols |-> nCols]
        ELSE [raised |-> "none", nRows |-> nRows, nCols |-> nCols]

\* ------------------------------------------------------------------ layers
\* no layer object (a constructor that raised, a name never bound)
NoLayer == [kind |-> "none", message |-> <<>>, nRows |-> 0, nCols |-> 0,
            data |-> <<>>, code |-> [kind |-> "unset", message |-> <<>>]]

\* the attribute self.code before any addCode has set it
Unset == [kind |-> "unset", message |-> <<>>]

\* a range check that lets 127 through
EnsurePrintableASCIIOffByOne(message) == \A i \in 1..Len(message) : 32 <= message[i] /\ message[i] <= 127

\* GridCode.ensurePrintableASCII: TRUE when it returns, FALSE when it raises
EnsurePrintableASCII(message) == \A i \in 1..Len(message) : 32 <= message[i] /\ message[i] <= 126

\* a channel that is the character code itself, not doubled
CharToChannelNoDouble(char) == char

\* BlockCode.charToChannel, BlockCode.channelToChar
CharToChannel(char) == 2 * char

ChannelToChar(channel) == channel \div 2

\* while len(slice) < RGBLEN: slice.append(null)
RECURSIVE PadTo(_, _, _)
PadTo(slice, n, null) == IF Len(slice) >= n THEN slice ELSE PadTo(Append(slice, null), n, null)

\* BlockCode.nBlocks, StegCode.nBlocks
BlockNBlocks(message) == CeilDiv(Len(message), RGBLEN)

StegNBlocks(message) == CeilDiv(Len(message) * ASCIILEN, RGBLEN)

\* BlockCode.fillColors, the colorArray: one colour per group of 3 characters
BlockColorArray(message) ==
    LET slices == Batched(message, RGBLEN)
    IN  [k \in 1..Len(slices) |->
            LET messageSlice == PadTo(slices[k], RGBLEN, BlockNULL)
            IN  FromRGB([c \in 1..RGBLEN |-> CharToChannel(messageSlice[c])])]

\* bin(n)[2:]: the binary digits of a natural, most significant first
RECURSIVE BinDigits(_)
BinDigits(v) == IF v < 2 THEN <<v>> ELSE Append(BinDigits(v \div 2), v % 2)

\* int(bits, 2)
RECURSIVE ParseBin(_)
ParseBin(bits) ==
    IF Len(bits) = 0 THEN 0
    ELSE 2 * ParseBin(SubSeq(bits, 1, Len(bits) - 1)) + bits[Len(bits)]

\* a bitstream of 8 bits per character
RECURSIVE StegBitsEightWide(_)
StegBitsEightWide(message) ==
    IF Len(message) = 0 THEN <<>>
    ELSE RJust(BinDigits(Head(message)), 8) \o StegBitsEightWide(Tail(message))

\* StegCode.fillColors, the bits: ASCIILEN bits per character
RECURSIVE StegBits(_)
StegBits(message) ==
    IF Len(message) = 0 THEN <<>>
    ELSE RJust(BinDigits(Head(message)), ASCIILEN) \o StegBits(Tail(message))

\* StegCode.fillColors, the colorArray: one colour per group of 3 bits
StegColorArray(message) ==
    LET slices == Batched(StegBits(message), RGBLEN)
    IN  [k \in 1..Len(slices) |-> FromRGB(PadTo(slices[k], RGBLEN, StegNULL))]

\* the cells coordFromIdx addresses for a colorArray all lie in the grid
FillInRange(nRows, nCols, n) ==
    \A idx \in 0..(n - 1) :
        nCols > 0 /\ CoordFromIdx(idx, nCols).i < nRows

\* BlockCode.__init__ / StegCode.__init__: validate, compute the dimensions,
\* allocate the grid, fill it.  The result says what was raised and whether
\* the ColorGrid constructor was reached.
NewGridLayer(kind, message, nBlocks, colorArray, nRows, nCols) ==
    IF ~EnsurePrintableASCII(message)
    THEN [raised |-> "ValueError", allocated |-> FALSE, layer |-> NoLayer]
    ELSE LET d == ComputeDimensions(nBlocks, nRows, nCols)
         IN  IF d.raised # "none"
             THEN [raised |-> d.raised, allocated |-> FALSE, layer |-> NoLayer]
             ELSE IF ~FillInRange(d.nRows, d.nCols, Len(colorArray))
             THEN [raised |-> "IndexError", allocated |-> TRUE, layer |-> NoLayer]
             ELSE [raised |-> "none", allocated |-> TRUE,
                   layer |-> [kind |-> kind, message |-> message,
                              nRows |-> d.nRows, nCols |-> d.nCols,
                              data |-> FillAll(ColorGrid(d.nRows, d.nCols), d.nCols, colorArray, 0),
                              code |-> Unset]]

NewBlockCode(message, nRows, nCols) ==
    NewGridLayer("Block", message, BlockNBlocks(message), BlockColorArray(message), nRows, nCols)

NewStegCode(message, nRows, nCols) ==
    NewGridLayer("Steg", message, StegNBlocks(message), StegColorArray(message), nRows, nCols)

\* QRCode.fillColors: Color(0) on every set module, the others stay unset
QRFillColors(modules) ==
    [i \in 1..Len(modules) |-> [j \in 1..Len(modules[i]) |->
        IF modules[i][j] THEN 0 ELSE None]]

\* QRCode.__init__: validate, then a modules_count x modules_count grid
\* filled from the module matrix the qrcode library made
NewQRCode(message, modules) ==
    IF ~EnsurePrintableASCII(message)
    THEN [raised |-> "ValueError", allocated |-> FALSE, layer |-> NoLayer]
    ELSE [raised |-> "none", allocated |-> TRUE,
          layer |-> [kind |-> "QR", message |-> message,
                     nRows |-> Len(modules), nCols |-> Len(modules),
                     data |-> QRFillColors(modules), code |-> Unset]]

\* ------------------------------------------------------------------ addCode
\* GridCode.transformBlockColor, GridCode.transformStegColor
TransformBlockColor(color) == ColorNeg(color)

TransformStegColor(color) == color

\* the transformFunc addCode picks for a source of the given kind
TransformFunc(kind, color) ==
    IF kind = "Block" THEN TransformBlockColor(color) ELSE TransformStegColor(color)

\* the classes that define blockMax / stegMax / skipNones
HasBlockMax(kind) == kind = "QR"

HasStegMax(kind) == kind \in {"QR", "Block"}

\* nFilled = sum([_ is not None for _ in self.grid])
NFilled(layer) == Cardinality({k \in 1..Len(GridIter(layer.data)) : GridIter(layer.data)[k] # None})

\* a capacity counted over every cell, set or not
BlockMaxWholeArea(layer) == Area(layer) * RGBLEN

\* QRCode.blockMax
BlockMax(layer) == NFilled(layer) * RGBLEN

\* BlockCode.stegMax, QRCode.stegMax
StegMax(layer) ==
    IF layer.kind = "Block" THEN (Area(layer) * RGBLEN) \div ASCIILEN
    ELSE (NFilled(layer) * RGBLEN) \div ASCIILEN

\* a skipNones that skips nothing on any target
SkipNonesNever(kind, color) == FALSE

\* BlockCode.skipNones, QRCode.skipNones
SkipNones(kind, color) == IF kind = "QR" THEN color = None ELSE FALSE

\* a walk that pulls a source colour for the cells it skips as well
RECURSIVE AddWalkConsumeOnSkip(_, _, _, _, _, _)
AddWalkConsumeOnSkip(data, nCols, kind, srcKind, colors, pos) ==
    IF nCols = 0 \/ pos >= Len(data) * nCols THEN data
    ELSE LET coord == CoordFromIdx(pos, nCols)
             color == data[coord.i + 1][coord.j + 1]
         IN  IF Len(colors) = 0 THEN data
             ELSE IF Head(colors) = None THEN data
             ELSE IF SkipNones(kind, color)
             THEN AddWalkConsumeOnSkip(data, nCols, kind, srcKind, Tail(colors), pos + 1)
             ELSE AddWalkConsumeOnSkip(
                      Fill(data, coord, IAdd(color, TransformFunc(srcKind, Head(colors)))),
                      nCols, kind, srcKind, Tail(colors), pos + 1)

\* the loop of addCode from the cell at linear position pos on, with colors
\* the part of the source iterator not yet consumed
RECURSIVE AddWalk(_, _, _, _, _, _)
AddWalk(data, nCols, kind, srcKind, colors, pos) ==
    IF nCols = 0 \/ pos >= Len(data) * nCols THEN data
    ELSE LET coord == CoordFromIdx(pos, nCols)
             color == data[coord.i + 1][coord.j + 1]
         IN  IF SkipNones(kind, color)
             THEN AddWalk(data, nCols, kind, srcKind, colors, pos + 1)
             ELSE IF Len(colors) = 0 THEN data
             ELSE IF Head(colors) = None THEN data
             ELSE AddWalk(Fill(data, coord, IAdd(color, TransformFunc(srcKind, Head(colors)))),
                          nCols, kind, srcKind, Tail(colors), pos + 1)

\* an addCode that sets self.code only while it is still unset
AddCodeKeepFirst(self, code) ==
    IF code.kind \notin {"Block", "Steg"}
    THEN [raised |-> "UnboundLocalError", skipped |-> FALSE, layer |-> self]
    ELSE IF code.kind = "Block" /\ ~HasBlockMax(self.kind)
    THEN [raised |-> "AttributeError", skipped |-> FALSE, layer |-> self]
    ELSE IF code.kind = "Steg" /\ ~HasStegMax(self.kind)
    THEN [raised |-> "AttributeError", skipped |-> FALSE, layer |-> self]
    ELSE LET msgMax == IF code.kind = "Block" THEN BlockMax(self) ELSE StegMax(self)
         IN  IF Len(code.message) > msgMax
             THEN [raised |-> "none", skipped |-> TRUE, layer |-> self]
             ELSE [raised |-> "none", skipped |-> FALSE,
                   layer |-> [self EXCEPT
                       !.code = IF self.code = Unset
                                THEN [kind |-> code.kind, message |-> code.message]
                                ELSE self.code,
                       !.data = AddWalk(self.data, self.nCols, self.kind, code.kind,
                                        GridIter(code.data), 0)]]

\* GridCode.addCode(self, code): what it raises, whether it skipped the
\* source for want of capacity, and self afterwards
AddCode(self, code) ==
    IF code.kind \notin {"Block", "Steg"}
    THEN [raised |-> "UnboundLocalError", skipped |-> FALSE, layer |-> self]
    ELSE IF code.kind = "Block" /\ ~HasBlockMax(self.kind)
    THEN [raised |-> "AttributeError", skipped |-> FALSE, layer |-> self]
    ELSE IF code.kind = "Steg" /\ ~HasStegMax(self.kind)
    THEN [raised |-> "AttributeError", skipped |-> FALSE, layer |-> self]
    ELSE LET msgMax == IF code.kind = "Block" THEN BlockMax(self) ELSE StegMax(self)
         IN  IF Len(code.message) > msgMax
             THEN [raised |-> "none", skipped |-> TRUE, layer |-> self]
             ELSE [raised |-> "none", skipped |-> FALSE,
                   layer |-> [self EXCEPT
                       !.code = [kind |-> code.kind, message |-> code.message],
                       !.data = AddWalk(self.data, self.nCols, self.kind, code.kind,
                                        GridIter(code.data), 0)]]

\* ------------------------------------------------------------------ Canvas
\* Canvas.__init__: lightColoredBlocks = isinstance(gridContainer, BlockCode)
LightColoredBlocks(layer) == layer.kind = "Block"

\* Canvas.getElements: one Rect per set cell, row by row, with its fill
\* (the hex digits after '#') and its desc attribute
GetElements(layer) ==
    LET cells == SelectSeq(GridIter(layer.data), LAMBDA c : c # None)
    IN  [k \in 1..Len(cells) |->
            [fill |-> SvgHex(cells[k]),
             desc |-> IF LightColoredBlocks(layer) THEN "light" ELSE "dark"]]

\* the same Rects without the desc attribute (a file that lost it)
WithoutDesc(elements) == [k \in 1..Len(elements) |-> [elements[k] EXCEPT !.desc = "absent"]]

\* ------------------------------------------------------------------ decode
\* a decode that asks the Rect's tag before the override
DecodeColorTagFirst(child, lightColoredBlocks) ==
    LET color == ParseHex(child.fill)
    IN  IF child.desc # "absent"
        THEN IF child.desc = "dark" THEN TransformBlockColor(color) ELSE color
        ELSE IF lightColoredBlocks # "None"
        THEN IF lightColoredBlocks = "False" THEN TransformBlockColor(color) ELSE color
        ELSE color

\* GridCode.decode, the colour of one Rect after the optional un-XOR;
\* lightColoredBlocks is "None", "True" or "False"
DecodeColor(child, lightColoredBlocks) ==
    LET color == ParseHex(child.fill)
    IN  IF lightColoredBlocks # "None"
        THEN IF lightColoredBlocks = "False" THEN TransformBlockColor(color) ELSE color
        ELSE IF child.desc # "absent"
        THEN IF child.desc = "dark" THEN TransformBlockColor(color) ELSE color
        ELSE color

\* the channels of one colour: its hex string, two digits at a time
ColorChannels(color) ==
    LET slices == Batched(RJust(HexDigits(color), 6), 2)
    IN  [k \in 1..Len(slices) |-> ParseHex(slices[k])]

\* the channels list decode builds over all Rects
RECURSIVE DecodeChannels(_, _)
DecodeChannels(elements, lightColoredBlocks) ==
    IF Len(elements) = 0 THEN <<>>
    ELSE ColorChannels(DecodeColor(Head(elements), lightColoredBlocks))
         \o DecodeChannels(Tail(elements), lightColoredBlocks)

\* the block message: one character per channel
DecodeBlock(channels) == [k \in 1..Len(channels) |-> ChannelToChar(channels[k])]

\* the steg loop over it.batched(stegBits, ASCIILEN), with its two breaks
RECURSIVE StegChars(_)
StegChars(slices) ==
    IF Len(slices) = 0 THEN <<>>
    ELSE IF Len(Head(slices)) # ASCIILEN THEN <<>>
    ELSE IF ParseBin(Head(slices)) = 0 \/ ParseBin(Head(slices)) = 2^7 - 1 THEN <<>>
    ELSE <<ParseBin(Head(slices))>> \o StegChars(Tail(slices))

\* the steg message: the LSB of every channel, 7 at a time
DecodeSteg(channels) ==
    StegChars(Batched([k \in 1..Len(channels) |-> channels[k] % 2], ASCIILEN))

\* GridCode.decode: the two messages it logs
Decode(elements, lightColoredBlocks) ==
    LET channels == DecodeChannels(elements, lightColoredBlocks)
    IN  [block |-> DecodeBlock(channels), steg |-> DecodeSteg(channels)]

\* ------------------------------------------------------------------ fromJSON
\* GridCode.fromJSON on a mapping that has or lacks each of the three
\* fields; modules is the matrix the qrcode library makes for data.qr.
\* The result is what is raised and the layer returned.
FromJSON(data, modules) ==
    LET sc == NewStegCode(data.steg, None, None)
        bc == NewBlockCode(data.block, None, None)
        qc == NewQRCode(data.qr, modules)
    IN  IF data.hasSteg /\ sc.raised # "none" THEN [raised |-> sc.raised, layer |-> NoLayer]
        ELSE IF data.hasBlock /\ bc.raised # "none" THEN [raised |-> bc.raised, layer |-> NoLayer]
        ELSE IF data.hasQr /\ qc.raised # "none" THEN [raised |-> qc.raised, layer |-> NoLayer]
        ELSE IF data.hasQr THEN
            LET q1 == IF data.hasBlock THEN AddCode(qc.layer, bc.layer) ELSE
                          [raised |-> "none", skipped |-> FALSE, layer |-> qc.layer]
                q2 == IF data.hasSteg THEN AddCode(q1.layer, sc.layer) ELSE q1
            IN  IF q1.raised # "none" THEN [raised |-> q1.raised, layer |-> NoLayer]
                ELSE IF q2.raised # "none" THEN [raised |-> q2.raised, layer |-> NoLayer]
                ELSE [raised |-> "none", layer |-> q2.layer]
        ELSE IF data.hasBlock THEN
            LET b1 == IF data.hasSteg THEN AddCode(bc.layer, sc.layer) ELSE
                          [raised |-> "none", skipped |-> FALSE, layer |-> bc.layer]
            IN  IF b1.raised # "none" THEN [raised |-> b1.raised, layer |-> NoLayer]
                ELSE [raised |-> "none", layer |-> b1.layer]
        ELSE IF data.hasSteg THEN [raised |-> "none", layer |-> sc.layer]
        \* no branch bound gc: the test "gc is None" reads an unbound local
        ELSE [raised |-> "UnboundLocalError", layer |-> NoLayer]

\* the layer fromJSON composes onto and returns, as its constructor left it
FromJSONTarget(data, modules) ==
    IF data.hasQr THEN NewQRCode(data.qr, modules).layer
    ELSE IF data.hasBlock THEN NewBlockCode(data.block, None, None).layer
    ELSE IF data.hasSteg THEN NewStegCode(data.steg, None, None).layer
    ELSE NoLayer

\* ------------------------------------------------------------------ inputs
\* printable characters tried (the two ends of 32..126, 'H', 'i') and
\* the nearest characters outside the range
Chars == {32, 72, 105, 126}

BadChars == {31, 127}

\* the first n characters of two fixed texts over Chars
TextA(n) == [i \in 1..n |-> <<72, 105, 126, 32>>[((i - 1) % 4) + 1]]

TextB(n) == [i \in 1..n |-> <<126, 32, 105, 72, 126>>[((i - 1) % 5) + 1]]

\* messages with a character outside the printable range
BadMsgs == {<<b>> : b \in BadChars} \cup {<<72, b>> : b \in BadChars} \cup {<<b, 126, 72>> : b \in BadChars}

\* inputs of the layer specification: every message over Chars
LayerBlockMsgs == SeqsUpTo(Chars, MaxLayerLen) \cup BadMsgs

LayerStegMsgs == SeqsUpTo(Chars, MaxStegLen) \cup BadMsgs

\* explicit nRows / nCols arguments
Hints == {None} \cup 0..MaxDim

\* inputs of the composition specification: prefixes of the two texts as
\* the messages of targets and of fromJSON's fields
BlockMsgs == {TextA(n) : n \in 0..MaxBlockLen} \cup {TextB(n) : n \in 0..MaxBlockLen}

StegMsgs == {TextA(n) : n \in 0..MaxStegLen} \cup {TextB(n) : n \in 0..MaxStegLen}

\* the layers handed to addCode as sources: a block layer over a prefix of
\* the first text, a steg layer over a prefix of the second, a QR layer
SourceLayers ==
    {NewBlockCode(TextA(n), None, None).layer : n \in 0..MaxBlockLen}
    \cup {NewStegCode(TextB(n), None, None).layer : n \in 0..MaxStegLen}
    \cup {NewQRCode(<<72>>, [i \in 1..2 |-> [j \in 1..2 |-> TRUE]]).layer}

QRMsgs == {<<72, 105>>}

\* module matrices the qrcode library may hand back: every 2 x 2 matrix and
\* two 3 x 3 ones (all set; a checkerboard)
QRMatrices ==
    [1..2 -> [1..2 -> BOOLEAN]]
    \cup {[i \in 1..3 |-> [j \in 1..3 |-> TRUE]],
          [i \in 1..3 |-> [j \in 1..3 |-> (i + j) % 2 = 0]]}

\* ------------------------------------------------------------------ state
NoJson == [used |-> FALSE, hasQr |-> FALSE, qr |-> <<>>, hasBlock |-> FALSE, block |-> <<>>,
           hasSteg |-> FALSE, steg |-> <<>>]

NoCall == [op |-> "none", kind |-> "none", message |-> <<>>, nRows |-> None, nCols |-> None,
           lightColoredBlocks |-> "None", skipped |-> FALSE]

NoDecoded == [block |-> <<>>, steg |-> <<>>]

NoDims == [raised |-> "none", nRows |-> 0, nCols |-> 0, rowAdded |-> FALSE, colAdded |-> FALSE]

Init ==
    /\ pc = "start"
    /\ gc = NoLayer
    /\ base = NoLayer
    /\ json = NoJson
    /\ call = NoCall
    /\ raised = "none"
    /\ allocated = FALSE
    /\ pre = NoLayer
    /\ adds = 0
    /\ svg = <<>>
    /\ decoded = NoDecoded
    /\ dimIn = [nBlocks |-> 0, nRows |-> None, nCols |-> None]
    /\ dimOut = NoDims

\* ------------------------------------------------------------------ actions
\* the state after a constructor call with the given result
Constructed(res, c) ==
    /\ pc' = IF res.raised = "none" THEN "layer" ELSE "error"
    /\ gc' = res.layer
    /\ base' = res.layer
    /\ raised' = res.raised
    /\ allocated' = res.allocated
    /\ call' = c
    /\ UNCHANGED <<json, pre, adds, svg, decoded, dimIn, dimOut>>

\* gc = BlockCode(message, nRows, nCols)
CallBlockCode(msgs, hints) ==
    /\ pc = "start"
    /\ \E message \in msgs, nRows \in hints, nCols \in hints :
        Constructed(NewBlockCode(message, nRows, nCols),
                    [NoCall EXCEPT !.op = "BlockCode", !.kind = "Block", !.message = message,
                                   !.nRows = nRows, !.nCols = nCols])

\* gc = StegCode(message, nRows, nCols)
CallStegCode(msgs, hints) ==
    /\ pc = "start"
    /\ \E message \in msgs, nRows \in hints, nCols \in hints :
        Constructed(NewStegCode(message, nRows, nCols),
                    [NoCall EXCEPT !.op = "StegCode", !.kind = "Steg", !.message = message,
                                   !.nRows = nRows, !.nCols = nCols])

\* gc = QRCode(message)
CallQRCode(msgs) ==
    /\ pc = "start"
    /\ \E message \in msgs, modules \in QRMatrices :
        Constructed(NewQRCode(message, modules),
                    [NoCall EXCEPT !.op = "QRCode", !.kind = "QR", !.message = message])

\* gc = GridCode.fromJSON(filename)
CallFromJSON ==
    /\ pc = "start"
    /\ \E hasQr \in BOOLEAN, hasBlock \in BOOLEAN, hasSteg \in BOOLEAN :
       \E qr \in (IF hasQr THEN QRMsgs \cup BadMsgs ELSE {<<>>}),
          block \in (IF hasBlock THEN BlockMsgs \cup BadMsgs ELSE {<<>>}),
          steg \in (IF hasSteg THEN StegMsgs \cup BadMsgs ELSE {<<>>}),
          modules \in (IF hasQr THEN QRMatrices ELSE {<<>>}) :
        LET data == [used |-> TRUE, hasQr |-> hasQr, qr |-> qr, hasBlock |-> hasBlock,
                     block |-> block, hasSteg |-> hasSteg, steg |-> steg]
            res == FromJSON(data, modules)
        IN  /\ json' = data
            /\ pc' = IF res.raised = "none" THEN "layer" ELSE "error"
            /\ gc' = res.layer
            /\ base' = (IF res.raised = "none" THEN FromJSONTarget(data, modules) ELSE NoLayer)
            /\ raised' = res.raised
            /\ call' = [NoCall EXCEPT !.op = "fromJSON"]
            /\ adds' = (IF hasQr /\ hasBlock THEN 1 ELSE 0)
                       + (IF (hasQr \/ hasBlock) /\ hasSteg THEN 1 ELSE 0)
            /\ UNCHANGED <<allocated, pre, svg, decoded, dimIn, dimOut>>

\* gc.addCode(code) on a layer the caller built itself, with code a
\* freshly built BlockCode, StegCode or QRCode (the loop of run_g4g.py; the
\* layer fromJSON returns goes to the renderer, as in run_test.py)
CallAddCode ==
    /\ pc = "layer"
    /\ ~json.used
    /\ adds < MaxAdds
    /\ \E code \in SourceLayers :
        LET res == AddCode(gc, code)
        IN  /\ pre' = gc
            /\ gc' = res.layer
            /\ raised' = res.raised
            /\ pc' = IF res.raised = "none" THEN "layer" ELSE "error"
            /\ adds' = adds + 1
            /\ call' = [NoCall EXCEPT !.op = "addCode", !.kind = code.kind,
                                      !.message = code.message, !.skipped = res.skipped]
            /\ UNCHANGED <<base, json, allocated, svg, decoded, dimIn, dimOut>>

\* Canvas(gc).render(fname): the Rects written to the file
CallRender ==
    /\ pc = "layer"
    /\ svg' = GetElements(gc)
    /\ pc' = "svg"
    /\ call' = [NoCall EXCEPT !.op = "render"]
    /\ UNCHANGED <<gc, base, json, raised, allocated, pre, adds, decoded, dimIn, dimOut>>

\* GridCode.decode(fname, lightColoredBlocks) on the file as written, or on
\* the same file with the desc attributes lost when lossy is allowed
CallDecode(overrides, lossy) ==
    /\ pc = "svg"
    /\ \E lightColoredBlocks \in overrides, elements \in {svg} \cup (IF lossy THEN {WithoutDesc(svg)} ELSE {}) :
        /\ svg' = elements
        /\ decoded' = Decode(elements, lightColoredBlocks)
        /\ call' = [NoCall EXCEPT !.op = "decode", !.lightColoredBlocks = lightColoredBlocks]
    /\ pc' = "decoded"
    /\ UNCHANGED <<gc, base, json, raised, allocated, pre, adds, dimIn, dimOut>>

\* BlockCode.computeDimensions(nBlocks, nRows, nCols) called on its own
CallComputeDimensions ==
    /\ pc = "start"
    /\ \E nBlocks \in 0..MaxBlocks, nRows \in Hints, nCols \in Hints :
        /\ dimIn' = [nBlocks |-> nBlocks, nRows |-> nRows, nCols |-> nCols]
        /\ dimOut' = [SquareDimensions(nBlocks) EXCEPT
                         !.raised = ComputeDimensions(nBlocks, nRows, nCols).raised,
                         !.nRows = ComputeDimensions(nBlocks, nRows, nCols).nRows,
                         !.nCols = ComputeDimensions(nBlocks, nRows, nCols).nCols]
        /\ raised' = ComputeDimensions(nBlocks, nRows, nCols).raised
    /\ pc' = "dims"
    /\ call' = [NoCall EXCEPT !.op = "computeDimensions"]
    /\ UNCHANGED <<gc, base, json, allocated, pre, adds, svg, decoded>>

\* ------------------------------------------------------------------ specifications
\* composition: a layer or a whole assembly, addCode calls, render, decode
Next ==
    \/ CallBlockCode(BlockMsgs, Hints)
    \/ CallStegCode(StegMsgs, {None})
    \/ CallQRCode(QRMsgs)
    \/ CallFromJSON
    \/ CallAddCode
    \/ CallRender
    \/ CallDecode({"None"}, FALSE)

Spec == Init /\ [][Next]_vars

\* one layer on its own: construction with explicit dimensions, render, decode
NextLayer ==
    \/ CallBlockCode(LayerBlockMsgs, Hints)
    \/ CallStegCode(LayerStegMsgs, Hints)
    \/ CallQRCode(QRMsgs \cup BadMsgs)
    \/ CallRender
    \/ CallDecode({"None", "True", "False"}, TRUE)

SpecLayer == Init /\ [][NextLayer]_vars

\* the dimension planner on its own
NextDims == CallComputeDimensions

SpecDims == Init /\ [][NextDims]_vars

\* ------------------------------------------------------------------ properties
\* sequence s starts with sequence p
StartsWith(s, p) == Len(p) <= Len(s) /\ SubSeq(s, 1, Len(p)) = p

\* computeDimensions was called with neither nRows nor nCols
DimsUnconstrained == pc = "dims" /\ dimIn.nRows = None /\ dimIn.nCols = None

\* C7: computeDimensions(n, None, None) returns (rows, cols) with
\* rows*cols >= n and rows*cols < n + max(rows, cols) + 1, reached from
\* rows = cols = floor(sqrt(n)) by at most one row increment followed by at
\* most one column increment.
C7_NearSquare ==
    DimsUnconstrained =>
        /\ dimOut.raised = "none"
        /\ dimOut.nRows * dimOut.nCols >= dimIn.nBlocks
        /\ dimOut.nRows * dimOut.nCols < dimIn.nBlocks + Max(dimOut.nRows, dimOut.nCols) + 1
        /\ \E s \in 0..dimIn.nBlocks :
            /\ s * s <= dimIn.nBlocks /\ dimIn.nBlocks < (s + 1) * (s + 1)
            /\ dimOut.nRows \in {s, s + 1}
            /\ dimOut.nCols \in {s, s + 1}
            /\ (dimOut.nCols = s + 1 => dimOut.nRows = s + 1)

\* a call that needed both the row and the column increment
C7_Witness ==
    DimsUnconstrained /\ dimIn.nBlocks = 7 /\ dimOut.nRows = 3 /\ dimOut.nCols = 3

\* C8 as stated: computeDimensions(n, None, None) returns cols >= rows.
C8_ColsAtLeastRows == DimsUnconstrained => dimOut.nCols >= dimOut.nRows

\* C8 amended: computeDimensions(n, None, None) returns rows >= cols.
C8_RowsAtLeastCols == DimsUnconstrained => dimOut.nRows >= dimOut.nCols

\* a call that grew the rows and not the columns: 2 blocks give 2 x 1
C8_Witness ==
    DimsUnconstrained /\ dimIn.nBlocks = 2 /\ dimOut.nRows = 2 /\ dimOut.nCols = 1

\* the cell of a layer's grid at row-major position k, counted from 0
CellAt(layer, k) == layer.data[(k \div layer.nCols) + 1][(k % layer.nCols) + 1]

\* the colour a block message puts in its idx-th cell, counted from 1:
\* channel = 2 * character code, 0 beyond the end of the message
ExpBlockChannel(m, p) == IF p <= Len(m) THEN 2 * m[p] ELSE 0

ExpBlockCell(m, idx) ==
    65536 * ExpBlockChannel(m, 3 * idx - 2) + 256 * ExpBlockChannel(m, 3 * idx - 1)
    + ExpBlockChannel(m, 3 * idx)

\* the p-th bit, counted from 1, of the 7-bit, most-significant-first
\* bitstream of a message; 0 beyond its end
ExpBit(m, p) ==
    IF p > 7 * Len(m) THEN 0
    ELSE (m[((p - 1) \div 7) + 1] \div (2 ^ (6 - ((p - 1) % 7)))) % 2

ExpStegCell(m, idx) ==
    65536 * ExpBit(m, 3 * idx - 2) + 256 * ExpBit(m, 3 * idx - 1) + ExpBit(m, 3 * idx)

\* the grid holds exactly the colours of the block message m, in row-major
\* order from the first cell, and nothing else
BlockGridEncodes(layer, m) ==
    LET n == (Len(m) + 2) \div 3
    IN  /\ n <= layer.nRows * layer.nCols
        /\ Len(layer.data) = layer.nRows
        /\ \A i \in 1..layer.nRows : Len(layer.data[i]) = layer.nCols
        /\ \A k \in 0..(layer.nRows * layer.nCols - 1) :
            CellAt(layer, k) = IF k < n THEN ExpBlockCell(m, k + 1) ELSE None

\* the same for the steg message m: ceil(7 * len / 3) colours
StegGridEncodes(layer, m) ==
    LET n == (7 * Len(m) + 2) \div 3
    IN  /\ n <= layer.nRows * layer.nCols
        /\ Len(layer.data) = layer.nRows
        /\ \A i \in 1..layer.nRows : Len(layer.data[i]) = layer.nCols
        /\ \A k \in 0..(layer.nRows * layer.nCols - 1) :
            CellAt(layer, k) = IF k < n THEN ExpStegCell(m, k + 1) ELSE None

\* a layer exists and has received no composition
Uncomposed(kind) == gc.kind = kind /\ adds = 0 /\ pc \in {"layer", "svg", "decoded"}

\* the decode just made used the "light" hint: the override, or with no
\* override the tag of every Rect
LightHint ==
    \/ call.lightColoredBlocks = "True"
    \/ call.lightColoredBlocks = "None" /\ \A k \in 1..Len(svg) : svg[k].desc = "light"

\* C2: BlockCode(m) fills its grid in row-major order with one colour per
\* group of 3 characters, channel = 2 * ord, NUL padding in a short last
\* group; decoding those colours with the "light" hint gives m followed by
\* NUL padding up to a multiple of 3.  "Hi" gives a 1 x 1 grid holding
\* 0x90D200 and decodes to 'H', 'i', chr(0).
C2_BlockRoundTrip ==
    Uncomposed("Block") =>
        LET m == gc.message
            n == (Len(m) + 2) \div 3
        IN  /\ BlockGridEncodes(gc, m)
            /\ (pc = "decoded" /\ LightHint) =>
                /\ Len(decoded.block) = 3 * n
                /\ \A p \in 1..(3 * n) : decoded.block[p] = IF p <= Len(m) THEN m[p] ELSE 0
            /\ (m = <<72, 105>> /\ pc = "layer" /\ call.nRows = None /\ call.nCols = None) =>
                gc.nRows = 1 /\ gc.nCols = 1 /\ gc.data = <<(<<9490944>>)>>
            /\ (m = <<72, 105>> /\ pc = "decoded" /\ LightHint) => decoded.block = <<72, 105, 0>>

\* "Hi" built, rendered and decoded by its "light" tags
C2_Witness ==
    /\ Uncomposed("Block") /\ pc = "decoded"
    /\ gc.message = <<72, 105>> /\ gc.data = <<(<<9490944>>)>>
    /\ call.lightColoredBlocks = "None" /\ svg = <<[fill |-> <<9, 0, 13, 2, 0, 0>>, desc |-> "light"]>>
    /\ decoded.block = <<72, 105, 0>>

\* C3: StegCode(m) writes the 7-bit, most-significant-first bitstream as
\* ceil(7 * len(m) / 3) colours of three 0/1 channels, 0-padded, in row-major
\* order, and the steg decode of those colours starts with m.
C3_StegRoundTrip ==
    Uncomposed("Steg") =>
        /\ StegGridEncodes(gc, gc.message)
        /\ pc = "decoded" => StartsWith(decoded.steg, gc.message)

\* a two-character steg message (14 bits, 5 colours) decoded again
C3_Witness ==
    /\ Uncomposed("Steg") /\ pc = "decoded"
    /\ gc.message = <<72, 126>> /\ Len(svg) = 5
    /\ decoded.steg = <<72, 126>>

\* the last call was a layer constructor
CtorCall == call.op \in {"BlockCode", "StegCode", "QRCode"}

\* the cell count the constructor call needs
CallBlocks ==
    IF call.kind = "Block" THEN (Len(call.message) + 2) \div 3
    ELSE (7 * Len(call.message) + 2) \div 3

\* the constructor raised before the ColorGrid was allocated
FailedClean == raised # "none" /\ ~allocated /\ gc = NoLayer /\ pc = "error"

\* C9: a constructor given a message with a character outside 32..126, or
\* a BlockCode / StegCode given both nRows and nCols with nRows * nCols below
\* the required cell count, raises before any grid is allocated (explicit
\* dimensions are never corrected); a construction that does not raise
\* leaves a grid whose colours encode the whole message.
C9_AllOrNothing ==
    CtorCall =>
        /\ (\E i \in 1..Len(call.message) : call.message[i] < 32 \/ call.message[i] > 126)
                => FailedClean
        /\ (/\ call.kind \in {"Block", "Steg"}
            /\ call.nRows # None /\ call.nCols # None
            /\ call.nRows * call.nCols < CallBlocks) => FailedClean
        /\ raised # "none" => gc = NoLayer
        /\ raised = "none" =>
            /\ pc = "layer" /\ allocated
            /\ gc.kind = call.kind /\ gc.message = call.message
            /\ (call.nRows # None => gc.nRows = call.nRows)
            /\ (call.nCols # None => gc.nCols = call.nCols)
            /\ (call.kind = "Block" => BlockGridEncodes(gc, call.message))
            /\ (call.kind = "Steg" => StegGridEncodes(gc, call.message))
            /\ (call.kind = "QR" =>
                    \A k \in 0..(gc.nRows * gc.nCols - 1) : CellAt(gc, k) \in {0, None})

\* a 4-character block message (2 cells) refused a 1 x 1 grid
C9_Witness ==
    /\ call.op = "BlockCode" /\ Len(call.message) = 4
    /\ call.nRows = 1 /\ call.nCols = 1
    /\ raised = "ValueError" /\ ~allocated /\ gc = NoLayer

\* the block character decode reads from channel c of the k-th Rect when it
\* leaves the colour as it is, and when it undoes the XOR
RawChar(k, c) == (16 * svg[k].fill[2 * c - 1] + svg[k].fill[2 * c]) \div 2

CharOf(k, c, dark) == IF dark THEN 127 - RawChar(k, c) ELSE RawChar(k, c)

\* the k-th Rect is un-XORed when its tag decides before the override
DarkByTagFirst(k) ==
    IF svg[k].desc # "absent" THEN svg[k].desc = "dark"
    ELSE IF call.lightColoredBlocks # "None" THEN call.lightColoredBlocks = "False"
    ELSE FALSE

\* the k-th Rect is un-XORed when the override decides before its tag
DarkByOverrideFirst(k) ==
    IF call.lightColoredBlocks # "None" THEN call.lightColoredBlocks = "False"
    ELSE IF svg[k].desc # "absent" THEN svg[k].desc = "dark"
    ELSE FALSE

\* C6 as stated: a per-colour tag is used when present, the global override
\* only for colours without a tag, and with neither the colour is passed
\* through.
C6_TagBeatsOverride ==
    pc = "decoded" =>
        /\ Len(decoded.block) = 3 * Len(svg)
        /\ \A k \in 1..Len(svg), c \in 1..3 :
            decoded.block[3 * (k - 1) + c] = CharOf(k, c, DarkByTagFirst(k))

\* C6 amended: the global override, when given, decides for every colour;
\* a per-colour tag is used only when no override is given; with neither,
\* the colour is passed through.
C6_OverrideBeatsTag ==
    pc = "decoded" =>
        /\ Len(decoded.block) = 3 * Len(svg)
        /\ \A k \in 1..Len(svg), c \in 1..3 :
            decoded.block[3 * (k - 1) + c] = CharOf(k, c, DarkByOverrideFirst(k))

\* a colour tagged "light" decoded under the override "dark": un-XORed
C6_Witness ==
    /\ pc = "decoded" /\ Len(svg) > 0
    /\ svg[1].desc = "light" /\ call.lightColoredBlocks = "False"
    /\ decoded.block[1] = 127 - RawChar(1, 1)
    /\ decoded.block[1] # RawChar(1, 1)

\* the number of set cells of a layer's grid
SetCells(layer) ==
    Cardinality({k \in 0..(layer.nRows * layer.nCols - 1) : CellAt(layer, k) # None})

\* the last call was addCode
AddCall == call.op = "addCode" /\ pc \in {"layer", "error"}

\* the target of the last addCode defines the capacity for its source
HasCapacity ==
    \/ pre.kind = "QR" /\ call.kind \in {"Block", "Steg"}
    \/ pre.kind = "Block" /\ call.kind = "Steg"

\* that capacity, in characters of the source's message
Capacity ==
    IF pre.kind = "QR" /\ call.kind = "Block" THEN 3 * SetCells(pre)
    ELSE IF pre.kind = "QR" THEN (3 * SetCells(pre)) \div 7
    ELSE (3 * pre.nRows * pre.nCols) \div 7

C5_BlockOntoBlock ==
    (/\ AddCall /\ pre.kind = "Block" /\ call.kind = "Block"
     /\ Len(call.message) <= 3 * pre.nRows * pre.nCols) =>
        raised = "none" /\ ~call.skipped /\ gc.code = [kind |-> "Block", message |-> call.message]

\* the assembly made by fromJSON, with nothing composed onto it afterwards
Assembled ==
    /\ json.used
    /\ adds = (IF json.hasQr /\ json.hasBlock THEN 1 ELSE 0)
              + (IF (json.hasQr \/ json.hasBlock) /\ json.hasSteg THEN 1 ELSE 0)

\* each message fromJSON composes fits the capacity of its target
AssemblyFits ==
    IF json.hasQr THEN
        /\ (json.hasBlock => Len(json.block) <= 3 * SetCells(gc))
        /\ (json.hasSteg => Len(json.steg) <= (3 * SetCells(gc)) \div 7)
    ELSE IF json.hasBlock THEN
        json.hasSteg => Len(json.steg) <= (3 * gc.nRows * gc.nCols) \div 7
    ELSE TRUE

\* C1: for every non-empty subset of {qr, block, steg} whose composed
\* messages fit, the assembly of fromJSON, rendered with Canvas's tag and
\* decoded with no override, yields a block string that starts with the
\* block message and a steg string equal to the steg message.
C1_RoundTrip ==
    (/\ pc = "decoded" /\ Assembled /\ AssemblyFits
     /\ call.lightColoredBlocks = "None") =>
        /\ \A k \in 1..Len(svg) :
            svg[k].desc = IF ~json.hasQr /\ json.hasBlock THEN "light" ELSE "dark"
        /\ (json.hasBlock => StartsWith(decoded.block, json.block))
        /\ (json.hasSteg => decoded.steg = json.steg)

\* all three layers in one grid, both messages recovered
C1_Witness ==
    /\ pc = "decoded" /\ Assembled /\ AssemblyFits /\ call.lightColoredBlocks = "None"
    /\ json.hasQr /\ json.hasBlock /\ json.hasSteg
    /\ Len(json.block) >= 4 /\ Len(json.steg) >= 1
    /\ StartsWith(decoded.block, json.block) /\ decoded.steg = json.steg

\* C10 as stated: fromJSON on a mapping with none of qr, block, steg fails
\* with the ValueError of its 'no layer was built' check and returns no
\* layer.
C10_NoFieldsValueError ==
    (call.op = "fromJSON" /\ ~json.hasQr /\ ~json.hasBlock /\ ~json.hasSteg) =>
        raised = "ValueError" /\ gc = NoLayer /\ pc = "error"

\* the last addCode returned, and its source fitted the target's capacity
AddDone == AddCall /\ raised = "none" /\ HasCapacity /\ Len(call.message) <= Capacity

\* the source of the last addCode, as the target retains it
CallSource == [kind |-> call.kind, message |-> call.message]

\* C11 as stated: the layer a target retains is the first source composed
\* successfully; a later successful composition does not replace it (after
\* Block then Steg onto a QR target it is the Block layer).
C11_FirstRetained ==
    /\ AddDone => gc.code = IF pre.code = Unset THEN CallSource ELSE pre.code
    /\ (/\ json.used /\ pc = "layer" /\ json.hasQr /\ json.hasBlock /\ json.hasSteg
        /\ AssemblyFits) => gc.code = [kind |-> "Block", message |-> json.block]

\* C11 amended: the layer a target retains is the last source composed
\* successfully; a later successful composition replaces it (after Block
\* then Steg onto a QR target it is the Steg layer), and a composition
\* skipped for want of capacity leaves it as it was.
C11_LastRetained ==
    /\ AddDone => gc.code = CallSource
    /\ (AddCall /\ HasCapacity /\ Len(call.message) > Capacity) => gc.code = pre.code
    /\ (/\ json.used /\ pc = "layer" /\ json.hasQr /\ json.hasBlock /\ json.hasSteg
        /\ AssemblyFits) => gc.code = [kind |-> "Steg", message |-> json.steg]

\* a steg layer composed onto a QR target that retained a block layer
C11_Witness ==
    /\ AddDone /\ pre.kind = "QR"
    /\ pre.code.kind = "Block" /\ Len(pre.code.message) > 0
    /\ call.kind = "Steg" /\ Len(call.message) > 0
    /\ gc.code = CallSource

\* the source layer a retained record stands for (sources are built with
\* neither nRows nor nCols)
SourceOf(rec) ==
    IF rec.kind = "Block" THEN NewBlockCode(rec.message, None, None).layer
    ELSE NewStegCode(rec.message, None, None).layer

\* a QR target has received exactly two compositions, a Block and a Steg
\* source in either order, and both fitted
TwoAddsOnQR ==
    /\ AddDone /\ adds = 2 /\ base.kind = "QR"
    /\ pre.code # Unset
    /\ {pre.code.kind, call.kind} = {"Block", "Steg"}

\* the grid the same two sources give on the same QR target when composed
\* in the other order: the last one first
OtherOrder == AddCode(AddCode(base, SourceOf(CallSource)).layer, SourceOf(pre.code))

\* C12: for a QR target and a Block and a Steg source that each fit, the
\* grid after addCode(block) then addCode(steg) is cell for cell the grid
\* after addCode(steg) then addCode(block).
C12_OrderIndependent ==
    TwoAddsOnQR =>
        /\ OtherOrder.raised = "none" /\ ~OtherOrder.skipped
        /\ OtherOrder.layer.nRows = gc.nRows /\ OtherOrder.layer.nCols = gc.nCols
        /\ OtherOrder.layer.data = gc.data

\* steg then block on a QR target with both messages non-empty: a set cell
\* that the steg source had already raised is raised again by the block
\* source, and the other order gives the same grid
C12_Witness ==
    /\ TwoAddsOnQR /\ pre.code.kind = "Steg" /\ call.kind = "Block"
    /\ Len(pre.code.message) > 0 /\ Len(call.message) > 3
    /\ \E k \in 0..(gc.nRows * gc.nCols - 1) :
        /\ CellAt(pre, k) # None /\ CellAt(pre, k) > 0
        /\ CellAt(gc, k) > CellAt(pre, k)
    /\ OtherOrder.layer.data = gc.data

\* a target exists: the constructor or fromJSON returned one
HasTarget == base.kind # "none" /\ gc.kind # "none"

\* the positions of a layer's grid, row-major, counted from 0
Positions(layer) == 0..(layer.nRows * layer.nCols - 1)

\* C13: after construction and any sequence of addCode calls, composed or
\* skipped, the grid has the dimensions fixed at construction and every
\* cell set at construction is still set; on a QR target the cells that
\* are set are exactly the cells set at construction (the dark modules).
C13_SetnessKept ==
    HasTarget =>
        /\ gc.kind = base.kind
        /\ gc.nRows = base.nRows /\ gc.nCols = base.nCols
        /\ Len(gc.data) = base.nRows
        /\ \A i \in 1..Len(gc.data) : Len(gc.data[i]) = base.nCols
        /\ \A k \in Positions(base) : CellAt(base, k) # None => CellAt(gc, k) # None
        /\ base.kind = "QR" =>
            \A k \in Positions(base) : (CellAt(gc, k) # None) <=> (CellAt(base, k) # None)

\* a composition onto a QR target has walked past a light module: a cell
\* after it changed, the light module itself is still unset
C13_Witness ==
    /\ HasTarget /\ AddDone /\ base.kind = "QR"
    /\ \E k \in Positions(base) :
        /\ CellAt(base, k) = None /\ CellAt(gc, k) = None
        /\ \E k2 \in Positions(base) :
            k2 > k /\ CellAt(base, k2) # None /\ CellAt(gc, k2) # CellAt(base, k2)

\* the cells of the target of the last addCode that the walk does not skip:
\* every cell of a Block target, the set cells of a QR target
Eligible(k) == pre.kind # "QR" \/ CellAt(pre, k) # None

\* the number of eligible cells before position k, in row-major order
Rank(k) == Cardinality({q \in Positions(pre) : q < k /\ Eligible(q)})

\* the i-th colour of the source of the last addCode, counted from 0, after
\* the transform: each channel of a Block colour is even and at most 254, so
\* XOR 0xFEFEFE turns channel c into 254 - c; a Steg colour goes unchanged
Transformed(i) ==
    IF call.kind = "Block"
    THEN 65536 * (254 - ExpBlockChannel(call.message, 3 * i + 1))
         + 256 * (254 - ExpBlockChannel(call.message, 3 * i + 2))
         + (254 - ExpBlockChannel(call.message, 3 * i + 3))
    ELSE ExpStegCell(call.message, i + 1)

\* a cell's value as an operand of the sum: an unset cell adds nothing
OldValue(k) == IF CellAt(pre, k) = None THEN 0 ELSE CellAt(pre, k)

\* C14: after a successful addCode, the i-th eligible cell of the target in
\* row-major order (every cell of a Block target, the set cells of a QR
\* target), for i below the number of source colours, holds its old value
\* plus the transformed i-th source colour as a raw integer sum, an unset
\* old value adding nothing; every other cell keeps its value, so skipped
\* cells consume no source colour.
C14_CellMapping ==
    AddDone =>
        /\ gc.nRows = pre.nRows /\ gc.nCols = pre.nCols
        /\ \A k \in Positions(pre) :
            CellAt(gc, k) =
                IF Eligible(k) /\ Rank(k) < CallBlocks
                THEN OldValue(k) + Transformed(Rank(k))
                ELSE CellAt(pre, k)

\* a Block source composed onto a QR target that has a light module before
\* its last dark one: the dark cell after the light one took the source
\* colour that follows the one of the dark cell before it
C14_Witness ==
    /\ AddDone /\ pre.kind = "QR" /\ call.kind = "Block" /\ Len(call.message) > 3
    /\ \E k \in Positions(pre) :
        /\ ~Eligible(k) /\ CellAt(gc, k) = None
        /\ Rank(k) = 1 /\ k + 1 \in Positions(pre) /\ Eligible(k + 1)
        /\ CellAt(gc, k + 1) = OldValue(k + 1) + Transformed(1)
        /\ Transformed(1) # Transformed(0) /\ Transformed(1) # Transformed(2)

\* the first of two addCode calls composed its source
FirstComposed == ~json.used /\ adds = 2 /\ pre.code # Unset

\* the last addCode call composed its source
LastComposed == ~json.used /\ AddDone

\* fromJSON composed its block message (onto the QR layer)
JsonBlockComposed ==
    /\ json.used /\ json.hasQr /\ json.hasBlock
    /\ Len(json.block) <= 3 * SetCells(base)

\* fromJSON composed its steg message (onto the QR or the block layer)
JsonStegComposed ==
    /\ json.used /\ json.hasSteg
    /\ IF json.hasQr THEN Len(json.steg) <= (3 * SetCells(base)) \div 7
       ELSE json.hasBlock /\ Len(json.steg) <= (3 * base.nRows * base.nCols) \div 7

\* the grid is a whole-message assembly: a layer as constructed, with at
\* most one Block composition followed by at most one Steg composition
InAssembly ==
    /\ HasTarget
    /\ \/ json.used
       \/ adds = 0
       \/ /\ adds \in 1..2 /\ AddCall
          /\ (FirstComposed /\ LastComposed) => (pre.code.kind = "Block" /\ call.kind = "Steg")

\* a Block source has been composed, and its message
HasBlockPart ==
    \/ JsonBlockComposed
    \/ FirstComposed /\ pre.code.kind = "Block"
    \/ LastComposed /\ call.kind = "Block"

BlockPartMsg ==
    IF json.used THEN json.block
    ELSE IF FirstComposed /\ pre.code.kind = "Block" THEN pre.code.message
    ELSE call.message

\* a Steg source has been composed, and its message
HasStegPart ==
    \/ JsonStegComposed
    \/ FirstComposed /\ pre.code.kind = "Steg"
    \/ LastComposed /\ call.kind = "Steg"

StegPartMsg ==
    IF json.used THEN json.steg
    ELSE IF FirstComposed /\ pre.code.kind = "Steg" THEN pre.code.message
    ELSE call.message

\* the number of cells before position k that a walk over the target as
\* constructed does not skip
BaseRank(k) ==
    Cardinality({q \in Positions(base) : q < k /\ (base.kind # "QR" \/ CellAt(base, q) # None)})

\* what the block or QR colour contributes to channel c (1..3) of cell k
BlockPart(k, c) ==
    IF base.kind = "Block"
    THEN (IF CellAt(base, k) = None THEN 0 ELSE ExpBlockChannel(base.message, 3 * k + c))
    ELSE IF /\ base.kind = "QR" /\ HasBlockPart /\ CellAt(base, k) # None
            /\ BaseRank(k) < (Len(BlockPartMsg) + 2) \div 3
    THEN 254 - ExpBlockChannel(BlockPartMsg, 3 * BaseRank(k) + c)
    ELSE 0

\* what the steg colour contributes to channel c (1..3) of cell k
StegPart(k, c) ==
    IF base.kind = "Steg"
    THEN (IF CellAt(base, k) = None THEN 0 ELSE ExpBit(base.message, 3 * k + c))
    ELSE IF /\ HasStegPart /\ (base.kind = "QR" => CellAt(base, k) # None)
            /\ BaseRank(k) < (7 * Len(StegPartMsg) + 2) \div 3
    THEN ExpBit(StegPartMsg, 3 * BaseRank(k) + c)
    ELSE 0

\* channel c (1 red, 2 green, 3 blue) of a colour value
Channel(value, c) == (value \div (256 ^ (3 - c))) % 256

\* C15: in a whole-message assembly every set cell is within 0..0xFFFFFF and
\* each of its channels is the sum of the operands' channels, with no carry
\* into the next channel: the block or QR colour gives an even part of at
\* most 254 (the upper 7 bits), the steg colour gives 0 or 1 (the lowest
\* bit).
C15_NoChannelCarry ==
    InAssembly =>
        \A k \in Positions(gc) :
            CellAt(gc, k) # None =>
                /\ CellAt(gc, k) \in 0..16777215
                /\ \A c \in 1..3 :
                    /\ BlockPart(k, c) % 2 = 0 /\ BlockPart(k, c) \in 0..254
                    /\ StegPart(k, c) \in 0..1
                    /\ Channel(CellAt(gc, k), c) = BlockPart(k, c) + StegPart(k, c)

\* a QR cell that took the complement of a block padding channel (254) and
\* a steg bit 1: the channel is 255, the largest sum, and nothing carried
C15_Witness ==
    /\ InAssembly /\ base.kind = "QR" /\ HasBlockPart /\ HasStegPart
    /\ \E k \in Positions(gc) : \E c \in 2..3 :
        /\ CellAt(gc, k) # None
        /\ BlockPart(k, c) = 254 /\ StegPart(k, c) = 1
        /\ Channel(CellAt(gc, k), c) = 255
        /\ Channel(CellAt(gc, k), c - 1) = BlockPart(k, c - 1) + StegPart(k, c - 1)

====
